---- MODULE Spec2Model ----
(***************************************************************************)
(* Model of the SSH chat relay of src/main.rs: the Server template and its *)
(* per-connection handler clones, the shared client registry behind one    *)
(* mutex, the broadcast loop (post), the handler callbacks and the         *)
(* fire-and-forget forwarding task.                                        *)
(*                                                                         *)
(* Text is modelled as sequences of Unicode code points and client input   *)
(* as sequences of bytes.  The SSH library drives the callbacks of one     *)
(* connection one at a time and in protocol order: authentication          *)
(* callbacks before the connection is authenticated, channel, data and     *)
(* forwarding callbacks after it.                                          *)
(***************************************************************************)
EXTENDS Integers, Sequences, FiniteSets, TLC

\* ------------------------------------------------------------------ bounds
MaxConns == 2      \* connections accepted by the server
MaxChans == 2      \* session channels opened on one connection
MaxCalls == 7      \* calls the library makes in one run: new_client, the
                   \* handler callbacks, the end of a connection
MaxForwards == 1   \* tcpip_forward requests among them

Slots == 1..MaxConns

\* ------------------------------------------------------- inputs and text
CtrlC       == 3
Replacement == 65533                         \* U+FFFD
Users       == {<<97>>, <<98>>}              \* "a", "b"
Payloads    == {<<3>>, <<>>, <<3, 255>>}
Ports       == {0}
Verdicts    == {"valid", "invalid", "none"}  \* Some(valid), Some(!valid), None

\* " connected to the server.\r\n"
ConnectedText == <<32, 99, 111, 110, 110, 101, 99, 116, 101, 100, 32, 116, 111,
                   32, 116, 104, 101, 32, 115, 101, 114, 118, 101, 114, 46, 13, 10>>
\* " disconnected from the server.\r\n"
DisconnectedText == <<32, 100, 105, 115, 99, 111, 110, 110, 101, 99, 116, 101,
                      100, 32, 102, 114, 111, 109, 32, 116, 104, 101, 32, 115,
                      101, 114, 118, 101, 114, 46, 13, 10>>
\* "Hello from a forwarded port"
Greeting == <<72, 101, 108, 108, 111, 32, 102, 114, 111, 109, 32, 97, 32, 102,
              111, 114, 119, 97, 114, 100, 101, 100, 32, 112, 111, 114, 116>>
\* "1.2.3.4"
OriginatorAddress == <<49, 46, 50, 46, 51, 46, 52>>
OriginatorPort == 1234
CrLf == <<13, 10>>

\* String::from_utf8_lossy on the byte alphabet of Payloads: an ASCII byte is
\* its own character, a byte that can start no UTF-8 sequence (0xFF) becomes
\* U+FFFD.
from_utf8_lossy(bytes) ==
    [i \in 1..Len(bytes) |-> IF bytes[i] < 128 THEN bytes[i] ELSE Replacement]

ConnectedMessage(user) == user \o ConnectedText

DisconnectedMessage(user) == user \o DisconnectedText

ChatMessage(user, bytes) == <<91>> \o user \o <<93, 58, 32>> \o from_utf8_lossy(bytes) \o CrLf

ContainsCtrlC(bytes) == \E i \in DOMAIN bytes : bytes[i] = CtrlC

\* data == [3]
IsCtrlC(bytes) == bytes = <<CtrlC>>

\* ------------------------------------------------------------------ state
VARIABLES
    server_instance,   \* the template owned by main: id and connect_username
    hid,               \* hid[h]: Server.id of the handler clone in slot h
    connect_username,  \* connect_username[h] of the handler clone
    conn,              \* "none" | "unauth" | "auth" | "closed"
    nchan,             \* session channels opened so far on the connection
    clients,           \* registry: (id, channel) -> handle (slot of its session)
    mutex,             \* slot holding the registry mutex, 0 when free
    pc,                \* position of the running callback of the connection
    call,              \* locals of the running callback
    todo,              \* entries the running post has still to visit
    cur,               \* index in bc of the running post
    last,              \* the last call of the library that has returned, and
                       \* the number of calls made by then
    nameWrites,        \* assignments made to connect_username
    bc,                \* history: the broadcasts in order of mutex acquisition,
                       \* each with the handle writes it has made
    wlog,              \* history: the broadcasts in the order in which they
                       \* wrote; one appears again when it writes after another
    tasks,             \* spawned forwarding tasks
    calls,             \* calls the library has made so far
    received,          \* history: received[k], the broadcasts written to the handle of
                       \* entry k, in the order of the writes
    inbox,             \* inbox[h]: messages in the event queue of the session of h
    waiting            \* handlers suspended in lock(), in the order of their calls

vars == <<server_instance, hid, connect_username, conn, nchan, clients, mutex, pc, call,
          todo, cur, last, nameWrites, bc, wlog, tasks, calls, received, inbox, waiting>>

NoCall == [callback |-> "none", kind |-> "none", channel |-> 0, bytes |-> <<>>,
           data |-> <<>>, exclude_self |-> FALSE]

Returned(h, callback, verdict, reply, methods, at) ==
    [h |-> h, callback |-> callback, verdict |-> verdict, reply |-> reply,
     proceed_with_methods |-> methods, at |-> at]

Init ==
    /\ server_instance = [id |-> 0, connect_username |-> <<>>]
    /\ hid = [h \in Slots |-> 0]
    /\ connect_username = [h \in Slots |-> <<>>]
    /\ conn = [h \in Slots |-> "none"]
    /\ nchan = [h \in Slots |-> 0]
    /\ clients = <<>>
    /\ mutex = 0
    /\ pc = [h \in Slots |-> "idle"]
    /\ call = [h \in Slots |-> NoCall]
    /\ todo = [h \in Slots |-> {}]
    /\ cur = [h \in Slots |-> 0]
    /\ last = Returned(0, "none", "none", "none", {}, 0)
    /\ nameWrites = [h \in Slots |-> 0]
    /\ bc = <<>>
    /\ wlog = <<>>
    /\ tasks = <<>>
    /\ calls = 0
    /\ received = <<>>
    /\ inbox = [h \in Slots |-> 0]
    /\ waiting = <<>>

Alive(h) == conn[h] \in {"unauth", "auth"}

\* the library makes one more call
Called == calls < MaxCalls /\ calls' = calls + 1

\* --------------------------------------------------------------- new_client
IdNotIncremented(i) == i

\* self.id += 1
NextId(i) == i + 1

UsernameOfLastLogin(template) ==
    IF \E g \in Slots : connect_username[g] # <<>>
    THEN connect_username[CHOOSE g \in Slots : connect_username[g] # <<>>]
    ELSE template.connect_username

\* self.clone(): the String field of the clone is a copy of the template's
ClonedUsername(template) == template.connect_username

\* self.id += 1; self.clone(): the clone shares the registry and copies the
\* template's id and connect_username.
NewClient ==
    /\ \E h \in Slots :
        /\ conn[h] = "none"
        /\ \A g \in Slots : g < h => conn[g] # "none"
        /\ server_instance' = [server_instance EXCEPT !.id = NextId(@)]
        /\ hid' = [hid EXCEPT ![h] = server_instance'.id]
        /\ connect_username' =
               [connect_username EXCEPT ![h] = ClonedUsername(server_instance')]
        /\ conn' = [conn EXCEPT ![h] = "unauth"]
        /\ last' = Returned(h, "new_client", "none", "handler", {}, calls + 1)
    /\ Called
    /\ UNCHANGED <<nchan, clients, mutex, pc, call, todo, cur,
                   nameWrites, bc, wlog, tasks, received, inbox, waiting>>

\* ------------------------------------------------------------ authentication
AcceptsOnlyValid(verdict) == verdict = "valid"

\* match verify_key(password).await { Some(key) if !key.valid => Reject, _ => Accept }
AuthPasswordAccepts(verdict) == verdict # "invalid"

\* verify_key: the remote verdict, or None when the call fails.
verify_key(v) == v

UsernameAlwaysWritten(h, user, accepted) == user

\* self.connect_username = user.to_string(), made in the accepting arm only
UsernameAfterAuth(h, user, accepted) ==
    IF accepted THEN user ELSE connect_username[h]

\* auth_password: the match on the result of verify_key(password).await
AuthPassword(h) ==
    /\ conn[h] = "unauth"
    /\ pc[h] = "idle"
    /\ \E user \in Users, v \in Verdicts :
        LET accepted == AuthPasswordAccepts(verify_key(v)) IN
        /\ connect_username' =
               [connect_username EXCEPT ![h] = UsernameAfterAuth(h, user, accepted)]
        /\ nameWrites' = [nameWrites EXCEPT ![h] = IF accepted THEN @ + 1 ELSE @]
        /\ conn' = [conn EXCEPT ![h] = IF accepted THEN "auth" ELSE @]
        /\ last' = Returned(h, "auth_password", v,
                            IF accepted THEN "Accept" ELSE "Reject",
                            IF accepted THEN {} ELSE {"PASSWORD"}, calls + 1)
    /\ Called
    /\ UNCHANGED <<server_instance, hid, nchan, clients, mutex, pc, call, todo,
                   cur, bc, wlog, tasks, received, inbox, waiting>>

AuthPublickeyAccepts(h) ==
    /\ conn[h] = "unauth"
    /\ pc[h] = "idle"
    /\ conn' = [conn EXCEPT ![h] = "auth"]
    /\ last' = Returned(h, "auth_publickey", "none", "Accept", {}, calls + 1)
    /\ Called
    /\ UNCHANGED <<server_instance, hid, connect_username, nchan, clients,
                   mutex, pc, call, todo, cur, nameWrites, bc, wlog, tasks, received, inbox, waiting>>

\* auth_publickey: Reject { proceed_with_methods: Some(MethodSet::PASSWORD) }
AuthPublickey(h) ==
    /\ conn[h] = "unauth"
    /\ pc[h] = "idle"
    /\ last' = Returned(h, "auth_publickey", "none", "Reject", {"PASSWORD"}, calls + 1)
    /\ Called
    /\ UNCHANGED <<server_instance, hid, connect_username, conn, nchan, clients,
                   mutex, pc, call, todo, cur, nameWrites, bc, wlog, tasks, received, inbox, waiting>>

\* ------------------------------------------------------------------- post
SelectedNotSelf(exclude_self, self_id, key) == key[1] # self_id

SelectedAll(exclude_self, self_id, key) == TRUE

SelectedOnlySelf(exclude_self, self_id, key) == key[1] = self_id

\* if !exclude_self || *client_id != self.id
Selected(exclude_self, self_id, key) == ~exclude_self \/ key[1] # self_id

LockIgnored == TRUE

\* self.clients.lock().await completes when no other task holds the mutex
LockFree == mutex = 0

\* let mut clients = self.clients.lock().await; the loop then visits the
\* entries of the map, which cannot change while the guard is held.
PostLock(h) ==
    /\ pc[h] = "post"
    /\ LockFree
    /\ mutex' = h
    /\ todo' = [todo EXCEPT ![h] =
           {k \in DOMAIN clients : Selected(call[h].exclude_self, hid[h], k)}]
    /\ bc' = Append(bc, [h |-> h, id |-> hid[h], kind |-> call[h].kind,
                         user |-> connect_username[h],
                         channel |-> call[h].channel, bytes |-> call[h].bytes,
                         data |-> call[h].data,
                         exclude_self |-> call[h].exclude_self,
                         snap |-> DOMAIN clients, written |-> <<>>,
                         failed |-> {}, result |-> "pending"])
    /\ cur' = [cur EXCEPT ![h] = Len(bc) + 1]
    /\ pc' = [pc EXCEPT ![h] = "write"]
    /\ UNCHANGED <<server_instance, hid, connect_username, conn, nchan, clients,
                   call, last, nameWrites, wlog, tasks, calls, received, inbox, waiting>>

\* broadcast record b after one more write to the handle of entry k: the
\* number of writes made to k, and whether one of them failed
Written(b, k, ok) ==
    [b EXCEPT !.written = [j \in DOMAIN b.written \cup {k} |->
                              (IF j \in DOMAIN b.written THEN b.written[j] ELSE 0)
                              + (IF j = k THEN 1 ELSE 0)],
              !.failed = IF ok THEN @ ELSE @ \cup {k}]

\* client_handle.data(..) succeeds while the session behind the handle runs
HandleWriteOk(k) == Alive(clients[k])

AbortOnFailedWrite(rest, k, ok) == IF ok THEN rest \ {k} ELSE {}

\* let _ = ...: the result of the write is discarded and the loop goes on to
\* the entries it has not visited yet
AfterWrite(rest, k, ok) == rest \ {k}

\* let _ = client_handle.data(*channel, data.clone()).await; for the next
\* entry of the iteration (a HashMap iterates in no particular order)
PostWrite(h) ==
    /\ pc[h] = "write"
    /\ \E k \in todo[h] :
        /\ bc' = [bc EXCEPT ![cur[h]] = Written(@, k, HandleWriteOk(k))]
        /\ todo' = [todo EXCEPT ![h] = AfterWrite(@, k, HandleWriteOk(k))]
        /\ received' = [j \in DOMAIN received \cup {k} |->
                           IF j = k
                           THEN Append(IF k \in DOMAIN received THEN received[k] ELSE <<>>,
                                       cur[h])
                           ELSE received[j]]
    /\ wlog' = IF wlog # <<>> /\ wlog[Len(wlog)] = cur[h]
               THEN wlog ELSE Append(wlog, cur[h])
    /\ UNCHANGED <<server_instance, hid, connect_username, conn, nchan, clients,
                   mutex, pc, call, cur, last, nameWrites, tasks, calls, inbox, waiting>>

ClientsWithoutClosed(h) ==
    [k \in {j \in DOMAIN clients : clients[j] # h} |-> clients[k]]

\* the registry when connection h ends: no code removes an entry
ClientsAfterClose(h) == clients

DisconnectReturnsOk(kind) == IF kind = "connected" THEN "Ok(true)" ELSE "Ok(())"

\* what the callback returns once post has returned
CallbackResult(kind) ==
    CASE kind = "connected"  -> "Ok(true)"
      [] kind = "disconnect" -> "Err(Disconnect)"
      [] OTHER               -> "Ok(())"

\* end of the loop: the guard is dropped, post returns and the callback returns
\* its result; on Err(Disconnect) the library closes the connection.
PostReturn(h) ==
    /\ pc[h] = "write"
    /\ todo[h] = {}
    /\ mutex' = 0
    /\ bc' = [bc EXCEPT ![cur[h]].result = CallbackResult(call[h].kind)]
    /\ last' = Returned(h, call[h].callback, "none",
                        CallbackResult(call[h].kind), {}, calls)
    /\ conn' = [conn EXCEPT ![h] =
           IF CallbackResult(call[h].kind) = "Err(Disconnect)" THEN "closed" ELSE @]
    /\ pc' = [pc EXCEPT ![h] = "idle"]
    /\ call' = [call EXCEPT ![h] = NoCall]
    /\ cur' = [cur EXCEPT ![h] = 0]
    /\ clients' = IF CallbackResult(call[h].kind) = "Err(Disconnect)"
                  THEN ClientsAfterClose(h) ELSE clients
    /\ UNCHANGED <<server_instance, hid, connect_username, nchan, todo,
                   nameWrites, wlog, tasks, calls, received, inbox, waiting>>

\* ------------------------------------------------------ channel_open_session
BannerSkipsSelf == TRUE

\* self.post(CryptoVec::from(message), false)
BannerExcludeSelf == FALSE

\* { let mut clients = self.clients.lock().await;
\*   clients.insert((self.id, channel.id()), session.handle()); }
\* then the banner is formatted and post(message, false) is entered.
ChannelOpenSession(h) ==
    /\ conn[h] = "auth"
    /\ pc[h] = "idle"
    /\ nchan[h] < MaxChans
    /\ LockFree
    /\ nchan' = [nchan EXCEPT ![h] = @ + 1]
    /\ LET key == <<hid[h], nchan'[h]>> IN
        /\ clients' = [k \in DOMAIN clients \cup {key} |->
                          IF k = key THEN h ELSE clients[k]]
        /\ call' = [call EXCEPT ![h] =
               [callback |-> "channel_open_session", kind |-> "connected",
                channel |-> nchan'[h], bytes |-> <<>>,
                data |-> ConnectedMessage(connect_username[h]),
                exclude_self |-> BannerExcludeSelf]]
    /\ pc' = [pc EXCEPT ![h] = "post"]
    /\ Called
    /\ UNCHANGED <<server_instance, hid, connect_username, conn, mutex, todo,
                   cur, last, nameWrites, bc, wlog, tasks, received, inbox, waiting>>

\* --------------------------------------------------------------------- data
\* the client can send data on every channel that is open on its connection:
\* a session channel it has opened, or a forwarded channel it has confirmed
HasOpenChannel(h) ==
    \/ nchan[h] > 0
    \/ \E t \in DOMAIN tasks : tasks[t].h = h /\ tasks[t].pc \in {"data", "eof", "done"}

\* data(_: ChannelId, data, _): the channel the bytes arrived on is ignored
Data(h) ==
    /\ conn[h] = "auth"
    /\ pc[h] = "idle"
    /\ HasOpenChannel(h)
    /\ \E bytes \in Payloads :
        call' = [call EXCEPT ![h] =
            IF IsCtrlC(bytes)
            THEN [callback |-> "data", kind |-> "disconnect", channel |-> 0,
                  bytes |-> bytes,
                  data |-> DisconnectedMessage(connect_username[h]),
                  exclude_self |-> TRUE]
            ELSE [callback |-> "data", kind |-> "chat", channel |-> 0,
                  bytes |-> bytes,
                  data |-> ChatMessage(connect_username[h], bytes),
                  exclude_self |-> FALSE]]
    /\ pc' = [pc EXCEPT ![h] = "post"]
    /\ Called
    /\ UNCHANGED <<server_instance, hid, connect_username, conn, nchan, clients,
                   mutex, todo, cur, last, nameWrites, bc, wlog, tasks, received, inbox, waiting>>

\* ------------------------------------------------------------ tcpip_forward
TcpipForward(h) ==
    /\ conn[h] = "auth"
    /\ pc[h] = "idle"
    /\ Len(tasks) < MaxForwards
    /\ \E port \in Ports :
        tasks' = Append(tasks, [h |-> h, port |-> port, pc |-> "open",
                                originator |-> <<>>, sent |-> <<>>,
                                eof |-> FALSE])
    /\ last' = Returned(h, "tcpip_forward", "none", "Ok(true)", {}, calls + 1)
    /\ Called
    /\ UNCHANGED <<server_instance, hid, connect_username, conn, nchan, clients,
                   mutex, pc, call, todo, cur, nameWrites, bc, wlog, received, inbox, waiting>>

ForwardFailureDisconnects(h, confirmed) ==
    IF confirmed THEN conn ELSE [conn EXCEPT ![h] = "closed"]

\* tokio::spawn(async move { .. }): the task runs detached from the callback;
\* the panic of its unwrap ends the task alone and reaches no connection
ConnAfterForwardOpen(h, confirmed) == conn

\* handle.channel_open_forwarded_tcpip(address, port, "1.2.3.4", 1234).await.unwrap():
\* the client confirms the channel or refuses it; a closed session always
\* fails, and the unwrap then ends the task.
FwdOpen(t) ==
    /\ tasks[t].pc = "open"
    /\ \E confirmed \in BOOLEAN :
        /\ confirmed => Alive(tasks[t].h)
        /\ tasks' = [tasks EXCEPT ![t].originator = <<OriginatorAddress, OriginatorPort>>,
                                  ![t].pc = IF confirmed THEN "data" ELSE "panicked"]
        /\ conn' = ConnAfterForwardOpen(tasks[t].h, confirmed)
    /\ UNCHANGED <<server_instance, hid, connect_username, nchan, clients,
                   mutex, pc, call, todo, cur, last, nameWrites, bc, wlog, calls, received, inbox, waiting>>

FwdDataTwice(t) ==
    /\ tasks[t].pc = "data"
    /\ tasks' = [tasks EXCEPT ![t].sent = IF Alive(tasks[t].h)
                                          THEN @ \o <<Greeting, Greeting>> ELSE @,
                              ![t].pc = "eof"]
    /\ UNCHANGED <<server_instance, hid, connect_username, conn, nchan, clients,
                   mutex, pc, call, todo, cur, last, nameWrites, bc, wlog, calls, received, inbox, waiting>>

\* let _ = channel.data(&b"Hello from a forwarded port"[..]).await;
FwdData(t) ==
    /\ tasks[t].pc = "data"
    /\ tasks' = [tasks EXCEPT ![t].sent = IF Alive(tasks[t].h)
                                          THEN Append(@, Greeting) ELSE @,
                              ![t].pc = "eof"]
    /\ UNCHANGED <<server_instance, hid, connect_username, conn, nchan, clients,
                   mutex, pc, call, todo, cur, last, nameWrites, bc, wlog, calls, received, inbox, waiting>>

\* let _ = channel.eof().await;
FwdEof(t) ==
    /\ tasks[t].pc = "eof"
    /\ tasks' = [tasks EXCEPT ![t].eof = Alive(tasks[t].h),
                              ![t].pc = "done"]
    /\ UNCHANGED <<server_instance, hid, connect_username, conn, nchan, clients,
                   mutex, pc, call, todo, cur, last, nameWrites, bc, wlog, calls, received, inbox, waiting>>

\* ------------------------------------------------------ end of a connection
\* inactivity timeout or transport drop, seen by the session loop between two
\* callbacks; the handler is dropped, the registry is not touched.
Drop(h) ==
    /\ Alive(h)
    /\ pc[h] = "idle"
    /\ conn' = [conn EXCEPT ![h] = "closed"]
    /\ clients' = ClientsAfterClose(h)
    /\ last' = Returned(h, "closed", "none", "none", {}, calls + 1)
    /\ Called
    /\ UNCHANGED <<server_instance, hid, connect_username, nchan, mutex,
                   pc, call, todo, cur, nameWrites, bc, wlog, tasks, received, inbox, waiting>>

Next ==
    \/ NewClient
    \/ \E h \in Slots : AuthPassword(h)
    \/ \E h \in Slots : AuthPublickey(h)
    \/ \E h \in Slots : ChannelOpenSession(h)
    \/ \E h \in Slots : Data(h)
    \/ \E h \in Slots : PostLock(h)
    \/ \E h \in Slots : PostWrite(h)
    \/ \E h \in Slots : PostReturn(h)
    \/ \E h \in Slots : TcpipForward(h)
    \/ \E t \in DOMAIN tasks : FwdOpen(t)
    \/ \E t \in DOMAIN tasks : FwdData(t)
    \/ \E t \in DOMAIN tasks : FwdEof(t)
    \/ \E h \in Slots : Drop(h)

Spec == Init /\ [][Next]_vars

\* --------------------------------------------- the event queue of a session
\* Spec takes every write to a handle as completing at once, which is what a
\* write does while the queue of the session behind the handle has room; it
\* never fills within the bounds of Spec.  SpecProgress models the queue: the
\* handle of a session is the sending end of a bounded queue (event_buffer_size
\* of the server Config, left at its default), Handle::data waits while the
\* queue is full, and the session takes messages off its queue only in its
\* loop, between two callbacks.  tokio's Mutex serves lock() calls in order.
EventBufferSize == 10

\* two connections accepted and authenticated, no channel opened yet
InitProgress ==
    /\ server_instance = [id |-> MaxConns, connect_username |-> <<>>]
    /\ hid = [h \in Slots |-> h]
    /\ connect_username = [h \in Slots |-> <<96 + h>>]
    /\ conn = [h \in Slots |-> "auth"]
    /\ nchan = [h \in Slots |-> 0]
    /\ clients = <<>>
    /\ mutex = 0
    /\ pc = [h \in Slots |-> "idle"]
    /\ call = [h \in Slots |-> NoCall]
    /\ todo = [h \in Slots |-> {}]
    /\ cur = [h \in Slots |-> 0]
    /\ last = Returned(MaxConns, "auth_password", "valid", "Accept", {}, 2 * MaxConns)
    /\ nameWrites = [h \in Slots |-> 1]
    /\ bc = <<>>
    /\ wlog = <<>>
    /\ tasks = <<>>
    /\ calls = 2 * MaxConns
    /\ received = <<>>
    /\ inbox = [h \in Slots |-> 0]
    /\ waiting = <<>>

\* channel_open_session: the insert under its own guard, then post is entered
\* and the handler suspends in lock() behind the handlers already waiting
OpenQueued(h) ==
    /\ conn[h] = "auth"
    /\ pc[h] = "idle"
    /\ Cardinality(DOMAIN clients) <= EventBufferSize
    /\ LockFree
    /\ waiting = <<>>
    /\ nchan' = [nchan EXCEPT ![h] = @ + 1]
    /\ LET key == <<hid[h], nchan'[h]>> IN
        /\ clients' = [k \in DOMAIN clients \cup {key} |->
                          IF k = key THEN h ELSE clients[k]]
        /\ call' = [call EXCEPT ![h] =
               [callback |-> "channel_open_session", kind |-> "connected",
                channel |-> nchan'[h], bytes |-> <<>>,
                data |-> ConnectedMessage(connect_username[h]),
                exclude_self |-> BannerExcludeSelf]]
    /\ pc' = [pc EXCEPT ![h] = "post"]
    /\ waiting' = Append(waiting, h)
    /\ UNCHANGED <<server_instance, hid, connect_username, conn, mutex, todo,
                   cur, last, nameWrites, bc, wlog, tasks, calls, received, inbox>>

\* the buffers that differ in what the queues see: Ctrl-C and a chat line
QueuedPayloads == {<<CtrlC>>, <<>>}

\* data: the message is formatted, post is entered and the handler suspends in
\* lock() behind the handlers already waiting
DataQueued(h) ==
    /\ conn[h] = "auth"
    /\ pc[h] = "idle"
    /\ HasOpenChannel(h)
    /\ \E bytes \in QueuedPayloads :
        call' = [call EXCEPT ![h] =
            IF IsCtrlC(bytes)
            THEN [callback |-> "data", kind |-> "disconnect", channel |-> 0,
                  bytes |-> bytes,
                  data |-> DisconnectedMessage(connect_username[h]),
                  exclude_self |-> TRUE]
            ELSE [callback |-> "data", kind |-> "chat", channel |-> 0,
                  bytes |-> bytes,
                  data |-> ChatMessage(connect_username[h], bytes),
                  exclude_self |-> FALSE]]
    /\ pc' = [pc EXCEPT ![h] = "post"]
    /\ waiting' = Append(waiting, h)
    /\ UNCHANGED <<server_instance, hid, connect_username, conn, nchan, clients,
                   mutex, todo, cur, last, nameWrites, bc, wlog, tasks, calls,
                   received, inbox>>

\* self.clients.lock().await completes for the handler that has waited longest
LockQueued(h) ==
    /\ pc[h] = "post"
    /\ LockFree
    /\ waiting # <<>>
    /\ Head(waiting) = h
    /\ mutex' = h
    /\ waiting' = Tail(waiting)
    /\ todo' = [todo EXCEPT ![h] =
           {k \in DOMAIN clients : Selected(call[h].exclude_self, hid[h], k)}]
    /\ pc' = [pc EXCEPT ![h] = "write"]
    /\ UNCHANGED <<server_instance, hid, connect_username, conn, nchan, clients,
                   call, cur, last, nameWrites, bc, wlog, tasks, calls, received,
                   inbox>>

\* the queue behind the handle of session g takes one more message
HandleHasRoom(g) == inbox[g] < EventBufferSize

\* client_handle.data(..).await: the write completes when the queue of the
\* session has room and fails at once when the session is gone.  The entries of
\* one connection share a handle queue and are visited in channel order, the
\* connections in any order.
WriteQueued(h) ==
    /\ pc[h] = "write"
    /\ \E k \in todo[h] :
        /\ \A j \in todo[h] : (j[1] = k[1]) => (k[2] <= j[2])
        /\ IF Alive(clients[k])
           THEN /\ HandleHasRoom(clients[k])
                /\ inbox' = [inbox EXCEPT ![clients[k]] = @ + 1]
           ELSE inbox' = inbox
        /\ todo' = [todo EXCEPT ![h] = AfterWrite(@, k, Alive(clients[k]))]
    /\ UNCHANGED <<server_instance, hid, connect_username, conn, nchan, clients,
                   mutex, pc, call, cur, last, nameWrites, bc, wlog, tasks, calls,
                   received, waiting>>

\* end of the loop: the guard is dropped and the callback returns; on
\* Err(Disconnect) the session ends and its queue is dropped with it
ReturnQueued(h) ==
    /\ pc[h] = "write"
    /\ todo[h] = {}
    /\ mutex' = 0
    /\ conn' = [conn EXCEPT ![h] =
           IF CallbackResult(call[h].kind) = "Err(Disconnect)" THEN "closed" ELSE @]
    /\ inbox' = [inbox EXCEPT ![h] =
           IF CallbackResult(call[h].kind) = "Err(Disconnect)" THEN 0 ELSE @]
    /\ pc' = [pc EXCEPT ![h] = "idle"]
    /\ call' = [call EXCEPT ![h] = NoCall]
    /\ UNCHANGED <<server_instance, hid, connect_username, nchan, clients, todo,
                   cur, last, nameWrites, bc, wlog, tasks, calls, received, waiting>>

\* the loop of the session, between two callbacks, takes a message off its
\* queue and sends it to the client
SessionReceive(h) ==
    /\ Alive(h)
    /\ pc[h] = "idle"
    /\ inbox[h] > 0
    /\ inbox' = [inbox EXCEPT ![h] = @ - 1]
    /\ UNCHANGED <<server_instance, hid, connect_username, conn, nchan, clients,
                   mutex, pc, call, todo, cur, last, nameWrites, bc, wlog, tasks,
                   calls, received, waiting>>

NextProgress ==
    \/ \E h \in Slots : OpenQueued(h)
    \/ \E h \in Slots : DataQueued(h)
    \/ \E h \in Slots : LockQueued(h)
    \/ \E h \in Slots : WriteQueued(h)
    \/ \E h \in Slots : ReturnQueued(h)
    \/ \E h \in Slots : SessionReceive(h)

SpecProgress == InitProgress /\ [][NextProgress]_vars

\* ================================================================ properties
\* the number of writes broadcast b has made to the handle of entry k
WritesTo(b, k) == IF k \in DOMAIN bc[b].written THEN bc[b].written[k] ELSE 0

\* the entries whose handle broadcast b has written to
WritesOf(b) == DOMAIN bc[b].written

\* broadcast b has written the line to the handle of entry k, without failure
Delivered(b, k) == k \in DOMAIN bc[b].written /\ k \notin bc[b].failed

\* broadcast b has written to all its entries and its callback has returned
Finished(b) == bc[b].result # "pending"

\* the entries registered by the channel_open_session calls whose banner
\* broadcast took the mutex before broadcast b did
OpenedBefore(b) ==
    {<<bc[o].id, bc[o].channel>> : o \in {i \in 1..(b - 1) : bc[i].kind = "connected"}}

\* a write fails only on the handle of a connection that has terminated
FailedWritesAreStale ==
    \A b \in DOMAIN bc : \A k \in bc[b].failed : conn[clients[k]] = "closed"

C2_CtrlCDisconnect ==
    /\ FailedWritesAreStale
    /\ \A b \in DOMAIN bc :
        /\ (bc[b].bytes = <<CtrlC>>) <=> (bc[b].kind = "disconnect")
        /\ (bc[b].kind = "disconnect" /\ Finished(b)) =>
            /\ bc[b].data = connect_username[bc[b].h] \o DisconnectedText
            /\ OpenedBefore(b) \subseteq bc[b].snap
            /\ \A k \in bc[b].snap :
                   WritesTo(b, k) = IF k[1] = hid[bc[b].h] THEN 0 ELSE 1
            /\ WritesOf(b) \subseteq bc[b].snap
            /\ bc[b].result = "Err(Disconnect)"
            /\ conn[bc[b].h] = "closed"

\* a finished Ctrl-C broadcast of a connection with a registered channel that
\* reached a running connection
C2_Witness ==
    \E b \in DOMAIN bc :
        /\ bc[b].kind = "disconnect" /\ Finished(b)
        /\ \E k \in bc[b].snap : k[1] = bc[b].id
        /\ \E k \in WritesOf(b) : Delivered(b, k) /\ k[1] # bc[b].id

\* C3: the auth_password call that returned last replied Accept exactly when the
\* verification service answered valid or the call to it failed, and replied
\* Reject, with password as the only method to proceed with, exactly when the
\* service answered invalid, whatever the user name and whatever came before;
\* the connection is authenticated by the Accept and by nothing else.
C3_AuthPasswordReply ==
    last.callback = "auth_password" =>
        /\ last.reply \in {"Accept", "Reject"}
        /\ (last.reply = "Accept") <=> (last.verdict \in {"valid", "none"})
        /\ (last.reply = "Reject") <=> (last.verdict = "invalid")
        /\ (last.reply = "Reject") => (last.proceed_with_methods = {"PASSWORD"})
        /\ (last.reply = "Accept") <=> (conn[last.h] = "auth")

\* a connection accepted because the verification call failed, after an
\* earlier attempt on the same connection had been rejected
C3_Witness ==
    /\ last.callback = "auth_password"
    /\ last.verdict = "none"
    /\ last.reply = "Accept"
    /\ calls >= 3
    /\ \A g \in Slots : g # last.h => conn[g] = "none"

\* C4: every auth_publickey call replies Reject with password as the only
\* method to proceed with, and changes neither the authentication state of a
\* connection, nor a user name, nor the registry, nor the template.
C4_AuthPublickeyRejects ==
    [][(calls' = calls + 1 /\ last'.at = calls' /\ last'.callback = "auth_publickey") =>
           /\ last'.reply = "Reject"
           /\ last'.proceed_with_methods = {"PASSWORD"}
           /\ conn' = conn
           /\ conn[last'.h] = "unauth"
           /\ connect_username' = connect_username
           /\ nameWrites' = nameWrites
           /\ clients' = clients
           /\ server_instance' = server_instance
           /\ hid' = hid]_vars

\* a public key was refused on a connection while another connection was
\* already authenticated and registered
C4_Witness ==
    /\ last.callback = "auth_publickey"
    /\ last.reply = "Reject"
    /\ conn[last.h] = "unauth"
    /\ connect_username[last.h] = <<>>
    /\ \E k \in DOMAIN clients : clients[k] # last.h

\* C5: the user name of a connection is assigned at most once, by an
\* auth_password call that replies Accept, and never changes afterwards; until
\* then, through every rejected auth_password and every auth_publickey, it is
\* the empty string.
C5_UsernameSetOnce ==
    /\ [](\A h \in Slots :
            /\ nameWrites[h] <= 1
            /\ (nameWrites[h] = 0) => (connect_username[h] = <<>> /\ conn[h] # "auth")
            /\ (conn[h] = "auth") => (nameWrites[h] = 1))
    /\ [][\A h \in Slots :
            /\ (connect_username'[h] # connect_username[h] \/ nameWrites'[h] # nameWrites[h]) =>
                  /\ nameWrites[h] = 0 /\ nameWrites'[h] = 1
                  /\ calls' = calls + 1 /\ last'.at = calls'
                  /\ last'.h = h
                  /\ last'.callback = "auth_password"
                  /\ last'.reply = "Accept"
            /\ (calls' = calls + 1 /\ last'.at = calls' /\ last'.h = h
                    /\ last'.reply = "Reject") =>
                  (connect_username[h] = <<>> /\ connect_username'[h] = <<>>)]_vars

\* a connection that was named by an accepted password and has since opened a
\* channel, finished a broadcast and been closed, its name still in place
C5_Witness ==
    \E h \in Slots :
        /\ nameWrites[h] = 1
        /\ connect_username[h] # <<>>
        /\ conn[h] = "closed"
        /\ \E b \in DOMAIN bc : bc[b].h = h /\ Finished(b) /\ bc[b].user = connect_username[h]

\* C6: the writes of one broadcast are consecutive in the order of all writes
\* (no broadcast writes again after another one has written);
\* a handler inside the loop of post holds the mutex, so at most one broadcast,
\* the one that took the mutex last, is unfinished.
C6_NoInterleaving ==
    /\ \A i, j \in DOMAIN wlog : (wlog[i] = wlog[j]) => (i = j)
    /\ \A h \in Slots : (pc[h] = "write") => (mutex = h /\ cur[h] = Len(bc))
    /\ \A b \in DOMAIN bc :
           ~Finished(b) => (b = Len(bc) /\ mutex # 0 /\ cur[mutex] = b)

\* a broadcast has written to one entry and has another to write while the
\* handler of another connection waits in post for the mutex
C6_Witness ==
    \E h, g \in Slots :
        /\ h # g
        /\ pc[h] = "write"
        /\ WritesOf(cur[h]) # {}
        /\ todo[h] # {}
        /\ Len(wlog) >= 2
        /\ pc[g] = "post"

\* C7: channel_open_session has inserted (connection id, channel id) -> the
\* session's handle before its broadcast starts; the finished broadcast carries
\* "<username> connected to the server.\r\n", has made exactly one write of it
\* to every entry registered when it took the mutex, the new entry included,
\* and the callback has returned Ok(true).
C7_OpenInsertsThenBroadcasts ==
    /\ FailedWritesAreStale
    /\ \A h \in Slots :
        (call[h].kind = "connected") =>
            /\ <<hid[h], call[h].channel>> \in DOMAIN clients
            /\ clients[<<hid[h], call[h].channel>>] = h
    /\ \A b \in DOMAIN bc :
        (bc[b].kind = "connected") =>
            /\ <<bc[b].id, bc[b].channel>> \in bc[b].snap
            /\ clients[<<bc[b].id, bc[b].channel>>] = bc[b].h
            /\ Finished(b) =>
                /\ bc[b].data = connect_username[bc[b].h] \o ConnectedText
                /\ \A k \in bc[b].snap : WritesTo(b, k) = 1
                /\ WritesOf(b) \subseteq bc[b].snap
                /\ bc[b].result = "Ok(true)"

\* a finished banner broadcast that reached the new channel and a channel that
\* another connection had registered before
C7_Witness ==
    \E b \in DOMAIN bc :
        /\ bc[b].kind = "connected" /\ Finished(b)
        /\ Delivered(b, <<bc[b].id, bc[b].channel>>)
        /\ \E k \in WritesOf(b) : Delivered(b, k) /\ k[1] # bc[b].id

\* C8 as stated: of two connections that have both opened a session and are
\* both still running, each has been written the other's banner.
C8_EachSeesTheOther ==
    \A a, b \in DOMAIN bc :
        (/\ bc[a].kind = "connected" /\ bc[b].kind = "connected"
         /\ bc[a].h # bc[b].h
         /\ Finished(a) /\ Finished(b)
         /\ Alive(bc[a].h) /\ Alive(bc[b].h)) =>
            Delivered(b, <<bc[a].id, bc[a].channel>>)

\* C8 amended: the channel of one connection is written the banner of another
\* connection's channel_open_session, once, exactly when it was inserted in the
\* registry before that banner's broadcast took the mutex; the banner that is
\* broadcast second is therefore written to both channels, and a channel
\* inserted after the other's broadcast is never written that banner.
C8_SeesBannersBroadcastAfterInsert ==
    /\ FailedWritesAreStale
    /\ \A a, b \in DOMAIN bc :
        (/\ bc[a].kind = "connected" /\ bc[b].kind = "connected"
         /\ bc[a].h # bc[b].h
         /\ Finished(b)) =>
            LET ka == <<bc[a].id, bc[a].channel>> IN
            /\ (a < b) => (ka \in bc[b].snap)
            /\ WritesTo(b, ka) = IF ka \in bc[b].snap THEN 1 ELSE 0

\* two running connections have opened a session one after the other: the
\* first was written the banner of the second, the second not that of the first
C8_Witness ==
    \E a, b \in DOMAIN bc :
        /\ bc[a].kind = "connected" /\ bc[b].kind = "connected"
        /\ bc[a].h # bc[b].h
        /\ Finished(a) /\ Finished(b)
        /\ Alive(bc[a].h) /\ Alive(bc[b].h)
        /\ Delivered(b, <<bc[a].id, bc[a].channel>>)
        /\ WritesTo(a, <<bc[b].id, bc[b].channel>>) = 0

\* C9 as stated: every forwarding task that has ended opened its channel with
\* originator "1.2.3.4":1234 and wrote the greeting once, then EOF.
C9_EveryForwardGreets ==
    \A t \in DOMAIN tasks :
        (tasks[t].pc \in {"done", "panicked"}) =>
            /\ tasks[t].originator = <<OriginatorAddress, OriginatorPort>>
            /\ tasks[t].sent = <<Greeting>>
            /\ tasks[t].eof

\* C9 amended: every tcpip_forward request returns Ok(true) and asks once for a
\* forwarded-tcpip channel with originator "1.2.3.4":1234.  When the client
\* confirms the channel and the connection is up until the task ends, the
\* channel carries the greeting once and then EOF; in every case nothing but
\* one greeting is written, EOF is only sent after it, and a refused channel
\* carries nothing.
C9_ForwardGreetsWhenConfirmed ==
    /\ (last.callback = "tcpip_forward") => (last.reply = "Ok(true)" /\ tasks # <<>>)
    /\ \A t \in DOMAIN tasks :
        /\ (tasks[t].pc # "open") =>
               tasks[t].originator = <<<<49, 46, 50, 46, 51, 46, 52>>, 1234>>
        /\ tasks[t].sent \in {<<>>, <<Greeting>>}
        /\ (tasks[t].pc \in {"open", "data", "panicked"}) =>
               (tasks[t].sent = <<>> /\ ~tasks[t].eof)
        /\ tasks[t].eof => (tasks[t].pc = "done" /\ tasks[t].sent = <<Greeting>>)
        /\ (tasks[t].pc = "eof" /\ Alive(tasks[t].h)) => (tasks[t].sent = <<Greeting>>)
        /\ (tasks[t].pc = "done" /\ Alive(tasks[t].h)) =>
               (tasks[t].sent = <<Greeting>> /\ tasks[t].eof)

\* a forwarding task has ended with the greeting and EOF on its channel
C9_Witness ==
    \E t \in DOMAIN tasks :
        /\ tasks[t].pc = "done"
        /\ tasks[t].sent = <<Greeting>>
        /\ tasks[t].eof
        /\ tasks[t].originator = <<OriginatorAddress, OriginatorPort>>

\* C10 as stated: no entry of a terminated connection is in the registry.
C10_NoEntryOfClosedConnection ==
    \A k \in DOMAIN clients : conn[clients[k]] # "closed"

\* C10 amended: the registry holds exactly one entry for every
\* channel_open_session call made so far, mapped to the handle of the calling
\* connection; an entry is never removed, so the entries of a connection that
\* has terminated stay in the registry.
C10_EntriesAreNeverRemoved ==
    /\ DOMAIN clients = {k \in (1..MaxConns) \X (1..MaxChans) :
                            \E h \in Slots : hid[h] = k[1] /\ k[2] <= nchan[h]}
    /\ \A k \in DOMAIN clients : hid[clients[k]] = k[1]

\* the registry holds an entry of a connection closed by Ctrl-C, an entry of a
\* running connection, and no connection was ended in another way
C10_Witness ==
    /\ \E k \in DOMAIN clients :
           /\ conn[clients[k]] = "closed"
           /\ \E b \in DOMAIN bc : bc[b].h = clients[k] /\ bc[b].result = "Err(Disconnect)"
    /\ \E k \in DOMAIN clients : Alive(clients[k])

\* C11: every new_client call has incremented the template counter by one and
\* given the new handler the incremented value: the counter equals the number
\* of handlers created, the ids of the handlers are distinct, a handler created
\* later has the greater id, and the id of a handler never changes once it is
\* assigned (through authentication, broadcasts and the end of the connection).
C11_IdsUniqueAndIncreasing ==
    /\ [](/\ server_instance.id = Cardinality({h \in Slots : conn[h] # "none"})
          /\ \A h \in Slots : (conn[h] # "none") =>
                 (hid[h] >= 1 /\ hid[h] <= server_instance.id)
          /\ \A h, g \in Slots :
                 (h < g /\ conn[h] # "none" /\ conn[g] # "none") => (hid[h] < hid[g]))
    /\ [][/\ \A h \in Slots : (conn[h] # "none") => (hid'[h] = hid[h])
          /\ server_instance'.id \in {server_instance.id, server_instance.id + 1}
          /\ \A h \in Slots : (conn[h] = "none" /\ conn'[h] # "none") =>
                 /\ server_instance'.id = server_instance.id + 1
                 /\ hid'[h] = server_instance'.id]_vars

\* two handlers have been created, the first has authenticated, registered a
\* channel and terminated, and the second carries the next id
C11_Witness ==
    \E h, g \in Slots :
        /\ conn[h] = "closed" /\ conn[g] \in {"unauth", "auth"}
        /\ hid[h] = 1 /\ hid[g] = 2
        /\ server_instance.id = 2
        /\ \E k \in DOMAIN clients : k[1] = hid[h]

\* C12: a write that fails (the handle of a connection that has terminated) is
\* ignored.  A finished broadcast has made one write to every entry its filter
\* selects, the failed ones included, and its callback has returned what it
\* returns when no write fails; while a broadcast runs and after it, the
\* registry holds the entries it held when the broadcast took the mutex, the
\* entries whose write failed among them.
C12_FailedWriteIgnored ==
    /\ \A h \in Slots : (pc[h] = "write") => (DOMAIN clients = bc[cur[h]].snap)
    /\ \A b \in DOMAIN bc :
        /\ bc[b].failed \subseteq WritesOf(b)
        /\ bc[b].snap \subseteq DOMAIN clients
        /\ \A k \in bc[b].failed : conn[clients[k]] = "closed" /\ hid[clients[k]] = k[1]
        /\ Finished(b) =>
            /\ \A k \in bc[b].snap :
                   WritesTo(b, k) = IF ~bc[b].exclude_self \/ k[1] # bc[b].id THEN 1 ELSE 0
            /\ bc[b].result = CASE bc[b].kind = "connected"  -> "Ok(true)"
                                [] bc[b].kind = "chat"       -> "Ok(())"
                                [] bc[b].kind = "disconnect" -> "Err(Disconnect)"

\* a finished broadcast one of whose writes failed on the stale entry of a
\* terminated connection and another of whose writes was delivered; the
\* callback returned success, its connection runs on and the stale entry is
\* still registered
C12_Witness ==
    \E b \in DOMAIN bc :
        /\ Finished(b)
        /\ bc[b].result \in {"Ok(true)", "Ok(())"}
        /\ Alive(bc[b].h)
        /\ \E k \in bc[b].failed : k \in DOMAIN clients
        /\ \E k \in WritesOf(b) : Delivered(b, k)

\* C13: every registry entry and every broadcast (banner, chat line, disconnect
\* banner) belongs to a connection that an auth_password call accepted.  A
\* connection that no auth_password call has accepted has no registry entry,
\* no broadcast and no forwarding task, runs no channel or data callback and
\* has the empty user name; and right after a Reject the same connection can
\* make an auth_password call that is accepted and authenticates it.
C13_OnlyAuthenticatedRegister ==
    /\ \A k \in DOMAIN clients :
           nameWrites[clients[k]] = 1 /\ conn[clients[k]] \in {"auth", "closed"}
    /\ \A b \in DOMAIN bc :
           nameWrites[bc[b].h] = 1 /\ conn[bc[b].h] \in {"auth", "closed"}
    /\ \A h \in Slots :
        /\ (pc[h] # "idle" \/ call[h].kind # "none") => (conn[h] = "auth")
        /\ (nameWrites[h] = 0) =>
            /\ conn[h] # "auth"
            /\ connect_username[h] = <<>>
            /\ nchan[h] = 0
            /\ \A k \in DOMAIN clients : clients[k] # h /\ (conn[h] # "none" => k[1] # hid[h])
            /\ \A b \in DOMAIN bc : bc[b].h # h
            /\ \A t \in DOMAIN tasks : tasks[t].h # h
    /\ (last.callback = "auth_password" /\ last.reply = "Reject") =>
        /\ conn[last.h] = "unauth"
        /\ nameWrites[last.h] = 0
        /\ (calls < MaxCalls) =>
               ENABLED (AuthPassword(last.h) /\ conn'[last.h] = "auth"
                        /\ connect_username'[last.h] # <<>>)

\* a connection whose password has just been rejected: it has no entry, no
\* broadcast and no name, next to a connection that was accepted, registered a
\* channel and finished its banner broadcast
C13_Witness ==
    /\ last.callback = "auth_password" /\ last.reply = "Reject"
    /\ connect_username[last.h] = <<>>
    /\ \A k \in DOMAIN clients : clients[k] # last.h
    /\ \E b \in DOMAIN bc :
           bc[b].kind = "connected" /\ Finished(b) /\ bc[b].h # last.h
               /\ Delivered(b, <<bc[b].id, bc[b].channel>>)

\* C14: a data call takes the disconnect path exactly when its buffer is the
\* one byte 0x03.  Its one broadcast then carries the disconnect banner and no
\* chat line, the callback returns Err(Disconnect) and the connection is
\* closed; for every other buffer (the empty one, a longer one that contains
\* 0x03) the broadcast carries the chat line, the callback returns Ok(()) and
\* the connection stays open.
C14_DisconnectOnlyOnCtrlC ==
    /\ \A h \in Slots :
        (call[h].callback = "data") =>
            /\ call[h].kind = IF call[h].bytes = <<3>> THEN "disconnect" ELSE "chat"
            /\ conn[h] = "auth"
    /\ \A b \in DOMAIN bc :
        (bc[b].kind \in {"chat", "disconnect"}) =>
            /\ bc[b].kind = IF bc[b].bytes = <<3>> THEN "disconnect" ELSE "chat"
            /\ bc[b].data = IF bc[b].bytes = <<3>>
                            THEN bc[b].user \o DisconnectedText
                            ELSE <<91>> \o bc[b].user \o <<93, 58, 32>>
                                     \o from_utf8_lossy(bc[b].bytes) \o <<13, 10>>
            /\ Finished(b) =>
                /\ (bc[b].result = "Err(Disconnect)") <=> (bc[b].bytes = <<3>>)
                /\ (bc[b].result = "Ok(())") <=> (bc[b].bytes # <<3>>)
                /\ (bc[b].bytes = <<3>>) => (conn[bc[b].h] = "closed")
    /\ (last.callback = "data") =>
        /\ last.reply \in {"Ok(())", "Err(Disconnect)"}
        /\ conn[last.h] = IF last.reply = "Ok(())" THEN "auth" ELSE "closed"

\* a data call with the empty buffer has returned Ok(()): its chat line, with
\* nothing after the prefix, was delivered and the connection is open, after a
\* buffer that contains 0x03 among other bytes was broadcast as a chat line too
C14_Witness ==
    /\ last.callback = "data" /\ last.reply = "Ok(())"
    /\ conn[last.h] = "auth"
    /\ \E b, c \in DOMAIN bc :
        /\ bc[b].h = last.h /\ bc[b].kind = "chat" /\ bc[b].bytes = <<>> /\ Finished(b)
        /\ \E k \in WritesOf(b) : Delivered(b, k)
        /\ c < b /\ bc[c].kind = "chat" /\ bc[c].bytes = <<3, 255>>

\* C15: the handler that new_client returns has the empty user name, whatever
\* the connections before it have done, and the template's user name is always
\* empty; an auth_password call on one connection changes at most the user
\* name of that connection, and changes neither the user name nor the id of
\* the template or of the handler of any other connection.
C15_FreshHandlerAndAuthFrame ==
    /\ [](/\ server_instance.connect_username = <<>>
          /\ (last.callback = "new_client") => (connect_username[last.h] = <<>>))
    /\ [][/\ \A h \in Slots : (conn[h] = "none" /\ conn'[h] # "none") =>
                 (connect_username'[h] = <<>> /\ nameWrites'[h] = 0)
          /\ (calls' = calls + 1 /\ last'.at = calls' /\ last'.callback = "auth_password") =>
                 /\ \A g \in Slots : (g # last'.h) =>
                        (connect_username'[g] = connect_username[g] /\ conn'[g] = conn[g])
                 /\ hid' = hid
                 /\ server_instance' = server_instance
                 /\ clients' = clients]_vars

\* new_client has just returned a handler with the empty user name while an
\* earlier connection, accepted by auth_password, carries a user name
C15_Witness ==
    /\ last.callback = "new_client"
    /\ connect_username[last.h] = <<>>
    /\ \E g \in Slots :
        /\ g # last.h
        /\ conn[g] = "auth"
        /\ connect_username[g] # <<>>
        /\ hid[g] < hid[last.h]

\* C16: a tcpip_forward call returns Ok(true) in the step that spawns its
\* forwarding task, the task not having begun; the steps of a forwarding task,
\* its failures included, change nothing but the task itself: no connection is
\* closed, no callback result, registry entry, broadcast or mutex is touched.
\* A task writes at most one greeting and sends at most one EOF, writes nothing
\* when its channel was not opened, and takes no step once it has ended.
C16_ForwardFailureSwallowed ==
    /\ [](\A t \in DOMAIN tasks :
            /\ Len(tasks[t].sent) <= 1
            /\ (tasks[t].pc = "panicked") => (tasks[t].sent = <<>> /\ ~tasks[t].eof)
            /\ tasks[t].eof => (tasks[t].pc = "done"))
    /\ [][/\ (calls' = calls + 1 /\ last'.at = calls' /\ last'.callback = "tcpip_forward") =>
                 /\ last'.reply = "Ok(true)"
                 /\ Len(tasks') = Len(tasks) + 1
                 /\ tasks'[Len(tasks')].pc = "open"
                 /\ tasks'[Len(tasks')].h = last'.h
                 /\ \A t \in DOMAIN tasks : tasks'[t] = tasks[t]
                 /\ conn' = conn /\ clients' = clients /\ bc' = bc /\ mutex' = mutex
          /\ (Len(tasks') = Len(tasks) /\ tasks' # tasks) =>
                 /\ conn' = conn /\ last' = last /\ calls' = calls
                 /\ clients' = clients /\ bc' = bc /\ wlog' = wlog
                 /\ mutex' = mutex /\ pc' = pc /\ todo' = todo
                 /\ connect_username' = connect_username
          /\ \A t \in DOMAIN tasks :
                 (tasks[t].pc \in {"done", "panicked"}) => (tasks'[t] = tasks[t])]_vars

\* the forwarding task of a running connection has failed to open its channel
\* and has ended; the request had returned Ok(true), the connection is still
\* authenticated and registered and runs a broadcast
C16_Witness ==
    \E t \in DOMAIN tasks :
        /\ tasks[t].pc = "panicked"
        /\ conn[tasks[t].h] = "auth"
        /\ pc[tasks[t].h] = "write"
        /\ \E k \in DOMAIN clients : clients[k] = tasks[t].h

\* broadcast a wrote to the handle of entry k before broadcast b did
WrittenBefore(k, a, b) ==
    \E i, j \in DOMAIN received[k] :
        i < j /\ received[k][i] = a /\ received[k][j] = b

\* C18: the broadcasts written to one channel were written in the order in
\* which they took the registry mutex (the order of bc), so two channels that
\* were both written by the same two broadcasts were written them in the same
\* relative order.
C18_ConsistentOrder ==
    /\ \A k \in DOMAIN received :
        /\ \A i, j \in DOMAIN received[k] :
               (i < j) => (received[k][i] < received[k][j])
        /\ \A b \in DOMAIN bc :
               (k \in WritesOf(b)) <=> (\E i \in DOMAIN received[k] : received[k][i] = b)
    /\ \A k1, k2 \in DOMAIN received : \A a, b \in DOMAIN bc :
        (/\ a # b /\ k1 # k2
         /\ {k1, k2} \subseteq WritesOf(a) /\ {k1, k2} \subseteq WritesOf(b)) =>
            /\ WrittenBefore(k1, a, b) <=> WrittenBefore(k2, a, b)
            /\ WrittenBefore(k1, a, b) <=> (a < b)

\* the channels of two connections have both been written the same two
\* broadcasts, which came from different connections
C18_Witness ==
    \E k1, k2 \in DOMAIN received : \E a, b \in DOMAIN bc :
        /\ k1[1] # k2[1]
        /\ bc[a].h # bc[b].h
        /\ WrittenBefore(k1, a, b)
        /\ WrittenBefore(k2, a, b)

\* the banner broadcasts of the channel_open_session call that registered k
BannerOf(k) ==
    {b \in DOMAIN bc : bc[b].kind = "connected" /\ <<bc[b].id, bc[b].channel>> = k}

\* C19 as stated: the first line written to a registered channel is the
\* "connected" banner of the channel_open_session call that registered it.
C19_BannerIsFirstLine ==
    \A k \in DOMAIN received : received[k][1] \in BannerOf(k)

\* C19 amended: a registered channel is written only by broadcasts that took
\* the mutex after its insertion; the call that registered it broadcasts one
\* banner, which is written to the channel exactly once; the lines written to
\* the channel before that banner come from broadcasts of other connections
\* that took the mutex between the insertion and the banner broadcast, and
\* every other line follows the banner.
C19_BannerOnceAfterEarlierBroadcasts ==
    \A k \in DOMAIN clients :
        /\ Cardinality(BannerOf(k)) <= 1
        /\ (BannerOf(k) = {}) =>
               (pc[clients[k]] = "post" /\ call[clients[k]].kind = "connected"
                    /\ call[clients[k]].channel = k[2])
        /\ \A b \in DOMAIN bc :
            /\ (k \in WritesOf(b)) => (k \in bc[b].snap)
            /\ (k \in bc[b].snap /\ \A o \in BannerOf(k) : b < o) =>
                   (bc[b].h # clients[k] /\ bc[b].id # k[1])
        /\ \A o \in BannerOf(k) :
            /\ k \in bc[o].snap
            /\ Finished(o) => (WritesTo(o, k) = 1 /\ k \notin bc[o].failed)
            /\ (k \in WritesOf(o)) =>
                   \A i \in DOMAIN received[k] :
                       /\ (received[k][i] < o) => (bc[received[k][i]].h # clients[k])
                       /\ (bc[received[k][i]].h = clients[k]) => (received[k][i] >= o)

\* a channel whose first line is the chat line of another connection, which
\* took the mutex after the insertion, and whose second line is its own banner
C19_Witness ==
    \E k \in DOMAIN received :
        /\ Len(received[k]) >= 2
        /\ bc[received[k][1]].kind = "chat"
        /\ bc[received[k][1]].h # clients[k]
        /\ received[k][2] \in BannerOf(k)
        /\ Finished(received[k][2])

\* C20 as stated: a chat line or disconnect banner of a connection is written
\* to a channel only after a "connected" banner broadcast of that connection
\* has completed.
C20_BannerBeforeChat ==
    \A b \in DOMAIN bc :
        (bc[b].kind \in {"chat", "disconnect"} /\ WritesOf(b) # {}) =>
            \E a \in 1..(b - 1) :
                bc[a].kind = "connected" /\ bc[a].h = bc[b].h /\ Finished(a)

\* C20 amended: the callbacks of one connection run one after the other, so a
\* broadcast of a connection starts only when the connection's earlier
\* broadcasts have completed; a chat line or disconnect banner of D is
\* broadcast only when D has an open channel: a session channel, whose
\* channel_open_session call has then completed its banner broadcast, or a
\* forwarded channel that the client confirmed (D may then have no banner at
\* all).  After the disconnect banner of D no further broadcast of D is made
\* and D is closed when the callback has returned.
C20_LinesNeedAnOpenChannel ==
    /\ \A a, b \in DOMAIN bc : (a < b /\ bc[a].h = bc[b].h) => Finished(a)
    /\ \A b \in DOMAIN bc :
        /\ (bc[b].kind \in {"chat", "disconnect"}) =>
            \/ \E a \in 1..(b - 1) :
                   bc[a].kind = "connected" /\ bc[a].h = bc[b].h /\ Finished(a)
            \/ \E t \in DOMAIN tasks :
                   /\ tasks[t].h = bc[b].h
                   /\ tasks[t].pc \in {"data", "eof", "done"}
                   /\ tasks[t].originator = <<OriginatorAddress, OriginatorPort>>
        /\ (bc[b].kind = "disconnect") =>
            /\ \A c \in DOMAIN bc : (c > b) => (bc[c].h # bc[b].h)
            /\ \A k \in DOMAIN received : \A i \in DOMAIN received[k] :
                   (received[k][i] > b) => (bc[received[k][i]].h # bc[b].h)
            /\ Finished(b) => (conn[bc[b].h] = "closed" /\ pc[bc[b].h] = "idle")

\* a connection that has opened no session has sent data on its confirmed
\* forwarded channel, and the chat line was delivered to the channel of another
\* connection; no banner of the sender was ever broadcast
C20_Witness ==
    \E b \in DOMAIN bc :
        /\ bc[b].kind = "chat" /\ Finished(b)
        /\ nchan[bc[b].h] = 0
        /\ \A a \in DOMAIN bc : (bc[a].h = bc[b].h) => (bc[a].kind # "connected")
        /\ \E k \in WritesOf(b) : Delivered(b, k) /\ k[1] # bc[b].id

\* C17: a handler inside the loop of post is never stuck: it has finished its
\* writes, or the write to one of the entries it has still to visit can
\* complete, now (the session behind the handle is gone, or its queue has
\* room) or once the session behind the handle, which is between two
\* callbacks, has taken a message off its queue.
C17_BroadcastsProgress ==
    \A h \in Slots :
        (pc[h] = "write" /\ todo[h] # {}) =>
            \E k \in todo[h] :
                \/ ~Alive(clients[k])
                \/ inbox[clients[k]] < EventBufferSize
                \/ pc[clients[k]] = "idle"
====
